---- MODULE Spec2Model ----
(***************************************************************************)
(* PipelineService (ui/src/app/service/pipeline/pipeline.service.ts).      *)
(*                                                                         *)
(* The service holds no field but its HttpClient.  Every method builds one *)
(* request descriptor (method, url, query parameters, headers, body,       *)
(* response type) and hands it to the HttpClient; deletePipeline alone     *)
(* pipes the answer through map(() => true).  The model follows one call   *)
(* from the method's invocation to the notification its caller receives.   *)
(*                                                                         *)
(* JavaScript values are tagged records, so that undefined, "", 0 and the  *)
(* string "undefined" stay distinct; urls are TLA+ strings built by the    *)
(* same concatenations as the source.                                      *)
(***************************************************************************)
EXTENDS Integers, Sequences

VARIABLES pc, call, sent, response, outcome

vars == <<pc, call, sent, response, outcome>>

(* Largest stage id, job action id and audit id drawn as an input. *)
MaxId == 3

----------------------------------------------------------------------------
(* JavaScript values *)

Undefined == [t |-> "undefined"]
Null == [t |-> "null"]
Str(s) == [t |-> "string", v |-> s]
Num(n) == [t |-> "number", v |-> n]
Bool(b) == [t |-> "boolean", v |-> b]
Obj(fields) == [t |-> "object", f |-> fields]

(* The body literal {} of rollbackPipeline: an object with no field. *)
EmptyObject == Obj(<<>>)

(* A request built without a body argument (get, delete). *)
NoBody == [t |-> "nobody"]

Digit(d) == SubSeq("0123456789", d + 1, d + 1)

RECURSIVE NatToString(_)
NatToString(n) ==
    IF n < 10 THEN Digit(n) ELSE NatToString(n \div 10) \o Digit(n % 10)

NumberToString(n) == IF n < 0 THEN "-" \o NatToString(-n) ELSE NatToString(n)

(* What '...' + v and `${v}` make of a value. *)
JsToString(v) ==
    CASE v.t = "undefined" -> "undefined"
      [] v.t = "null" -> "null"
      [] v.t = "string" -> v.v
      [] v.t = "number" -> NumberToString(v.v)
      [] v.t = "boolean" -> (IF v.v THEN "true" ELSE "false")
      [] v.t = "object" -> "[object Object]"

(* What !v and v || w test. *)
Truthy(v) ==
    CASE v.t = "undefined" -> FALSE
      [] v.t = "null" -> FALSE
      [] v.t = "string" -> v.v # ""
      [] v.t = "number" -> v.v # 0
      [] v.t = "boolean" -> v.v
      [] v.t = "object" -> TRUE

(* a || b *)
JsOr(a, b) == IF Truthy(a) THEN a ELSE b

----------------------------------------------------------------------------
(* Arguments the callers pass *)

Keys == {Str(""), Str("PRJ")}
PipNames == {Undefined, Str(""), Str("P")}
Ids == {Undefined} \cup {Num(i) : i \in -1..MaxId}
Stages == {Obj([id |-> i]) : i \in Ids}
Jobs == {Obj([pipeline_action_id |-> i]) : i \in Ids}
Pipelines == {Obj([name |-> n]) : n \in {Str("P"), Str("Q")}}
ParamNames == {Str(""), Str("x"), Str("new"), Str("FOO")}
PreviousNames == {Undefined, Str(""), Str("old")}
ParamValues == {Str("v"), Bool(TRUE)}
Parameters ==
    {Obj([name |-> n, previousName |-> p, value |-> v]) :
        n \in ParamNames, p \in PreviousNames, v \in ParamValues}
Codes == {Str(""), Str("name: P")}
Forces == {Undefined, Bool(TRUE), Bool(FALSE)}

----------------------------------------------------------------------------
(* HttpParams, HttpHeaders and the request handed to the HttpClient *)

NoParams == <<>>
NoHeaders == <<>>

(* params.append(k, v), headers.append(k, v) *)
append(s, k, v) == Append(s, <<k, v>>)

Request(method, url, body, headers, params, responseType) ==
    [method |-> method, url |-> url, body |-> body, headers |-> headers,
     params |-> params, responseType |-> responseType]

get(url, params, responseType) ==
    Request("GET", url, NoBody, NoHeaders, params, responseType)
post(url, body, headers, params) ==
    Request("POST", url, body, headers, params, "json")
put(url, body, headers, params) ==
    Request("PUT", url, body, headers, params, "json")
delete(url) == Request("DELETE", url, NoBody, NoHeaders, NoParams, "json")

----------------------------------------------------------------------------
(* State after construction: no call made yet *)

NoCall == [op |-> "none"]
NoResponse == [kind |-> "none"]
NoOutcome == [kind |-> "none"]

Init ==
    /\ pc = "idle"
    /\ call = NoCall
    /\ sent = <<>>
    /\ response = NoResponse
    /\ outcome = NoOutcome

----------------------------------------------------------------------------
(* The request each method builds *)

getPipelines_request(key) ==
    get("/project/" \o JsToString(key) \o "/pipeline", NoParams, "json")

getPipeline_request(key, pipName) ==
    LET p0 == NoParams
        p1 == append(p0, "withApplications", "true")
        p2 == append(p1, "withWorkflows", "true")
        p3 == append(p2, "withEnvironments", "true")
    IN  get("/project/" \o JsToString(key) \o "/pipeline/" \o JsToString(pipName),
            p3, "json")

updatePipeline_request(key, oldName, pipeline) ==
    put("/project/" \o JsToString(key) \o "/pipeline/" \o JsToString(oldName),
        pipeline, NoHeaders, NoParams)

importPipeline_request_alwaysPost(key, pipName, pipelineCode, force) ==
    LET headers == append(NoHeaders, "Content-Type", "application/x-yaml")
        params == append(NoParams, "format", "yaml")
    IN  post("/project/" \o JsToString(key) \o "/import/pipeline/"
                 \o JsToString(pipName),
             pipelineCode, headers, params)

importPipeline_request_force(key, pipName, pipelineCode, force) ==
    LET headers == append(NoHeaders, "Content-Type", "application/x-yaml")
        p1 == append(NoParams, "format", "yaml")
        params == IF Truthy(force) THEN append(p1, "force", "true") ELSE p1
    IN  IF ~Truthy(pipName)
        THEN post("/project/" \o JsToString(key) \o "/import/pipeline",
                  pipelineCode, headers, params)
        ELSE put("/project/" \o JsToString(key) \o "/import/pipeline/"
                     \o JsToString(pipName),
                 pipelineCode, headers, params)

importPipeline_request(key, pipName, pipelineCode, force) ==
    LET headers == append(NoHeaders, "Content-Type", "application/x-yaml")
        params == append(NoParams, "format", "yaml")
    IN  IF ~Truthy(pipName)
        THEN post("/project/" \o JsToString(key) \o "/import/pipeline",
                  pipelineCode, headers, params)
        ELSE put("/project/" \o JsToString(key) \o "/import/pipeline/"
                     \o JsToString(pipName),
                 pipelineCode, headers, params)

rollbackPipeline_request_idInBody(key, pipName, auditId) ==
    post("/project/" \o JsToString(key) \o "/pipeline/" \o JsToString(pipName)
             \o "/rollback",
         Obj([auditId |-> auditId]), NoHeaders, NoParams)

rollbackPipeline_request(key, pipName, auditId) ==
    post("/project/" \o JsToString(key) \o "/pipeline/" \o JsToString(pipName)
             \o "/rollback/" \o JsToString(auditId),
         EmptyObject, NoHeaders, NoParams)

deletePipeline_request(key, pipName) ==
    delete("/project/" \o JsToString(key) \o "/pipeline/" \o JsToString(pipName))

createPipeline_request(key, pipeline) ==
    post("/project/" \o JsToString(key) \o "/pipeline", pipeline,
         NoHeaders, NoParams)

getApplications_request_withFlags(key, pipName) ==
    get("/project/" \o JsToString(key) \o "/pipeline/" \o JsToString(pipName)
            \o "/application",
        append(NoParams, "withApplications", "true"), "json")

getApplications_request(key, pipName) ==
    get("/project/" \o JsToString(key) \o "/pipeline/" \o JsToString(pipName)
            \o "/application",
        NoParams, "json")

insertStage_request(key, pipName, stage) ==
    post("/project/" \o JsToString(key) \o "/pipeline/" \o JsToString(pipName)
             \o "/stage",
         stage, NoHeaders, NoParams)

updateStage_request(key, pipName, stage) ==
    put("/project/" \o JsToString(key) \o "/pipeline/" \o JsToString(pipName)
            \o "/stage/" \o JsToString(stage.f.id),
        stage, NoHeaders, NoParams)

deleteStage_request(key, pipName, stage) ==
    delete("/project/" \o JsToString(key) \o "/pipeline/" \o JsToString(pipName)
               \o "/stage/" \o JsToString(stage.f.id))

addJob_request(key, pipName, stageID, job) ==
    post("/project/" \o JsToString(key) \o "/pipeline/" \o JsToString(pipName)
             \o "/stage/" \o JsToString(stageID) \o "/job",
         job, NoHeaders, NoParams)

updateJob_request_noStage(key, pipName, stageID, job) ==
    LET url == "/project/" \o JsToString(key) \o "/pipeline/"
                   \o JsToString(pipName) \o "/job/"
                   \o JsToString(job.f.pipeline_action_id)
    IN  put(url, job, NoHeaders, NoParams)

updateJob_request(key, pipName, stageID, job) ==
    LET url == "/project/" \o JsToString(key) \o "/pipeline/"
                   \o JsToString(pipName) \o "/stage/" \o JsToString(stageID)
                   \o "/job/" \o JsToString(job.f.pipeline_action_id)
    IN  put(url, job, NoHeaders, NoParams)

removeJob_request(key, pipName, stageID, job) ==
    LET url == "/project/" \o JsToString(key) \o "/pipeline/"
                   \o JsToString(pipName) \o "/stage/" \o JsToString(stageID)
                   \o "/job/" \o JsToString(job.f.pipeline_action_id)
    IN  delete(url)

(* Parameter.format (model/parameter.model.ts): the parameter as sent, its
   value as text; the name is the parameter's current name. *)
Parameter_format(param) ==
    Obj([name |-> param.f.name,
         previousName |-> param.f.previousName,
         value |-> Str(JsToString(param.f.value))])

addParameter_request(key, pipName, param) ==
    post("/project/" \o JsToString(key) \o "/pipeline/" \o JsToString(pipName)
             \o "/parameter/" \o JsToString(param.f.name),
         param, NoHeaders, NoParams)

updateParameter_request_currentName(key, pipName, param) ==
    put("/project/" \o JsToString(key) \o "/pipeline/" \o JsToString(pipName)
            \o "/parameter/" \o JsToString(param.f.name),
        Parameter_format(param), NoHeaders, NoParams)

updateParameter_request(key, pipName, param) ==
    put("/project/" \o JsToString(key) \o "/pipeline/" \o JsToString(pipName)
            \o "/parameter/"
            \o JsToString(JsOr(param.f.previousName, param.f.name)),
        Parameter_format(param), NoHeaders, NoParams)

removeParameter_request(key, pipName, param) ==
    delete("/project/" \o JsToString(key) \o "/pipeline/"
               \o JsToString(pipName) \o "/parameter/"
               \o JsToString(param.f.name))

moveStage_request_yaml(key, pipName, stage) ==
    post("/project/" \o JsToString(key) \o "/pipeline/" \o JsToString(pipName)
             \o "/stage/move",
         stage, append(NoHeaders, "Content-Type", "application/x-yaml"),
         NoParams)

moveStage_request(key, pipName, stage) ==
    post("/project/" \o JsToString(key) \o "/pipeline/" \o JsToString(pipName)
             \o "/stage/move",
         stage, NoHeaders, NoParams)

getPipelineExport_request(key, pipName) ==
    LET p1 == append(NoParams, "format", "yaml")
        params == append(p1, "withPermissions", "true")
    IN  get("/project/" \o JsToString(key) \o "/export/pipeline/"
                \o JsToString(pipName),
            params, "text")

previewPipelineImport_request(key, pipImportCode) ==
    LET params == append(NoParams, "format", "yaml")
        headers == append(NoHeaders, "Content-Type", "application/x-yaml")
    IN  post("/project/" \o JsToString(key) \o "/preview/pipeline",
             pipImportCode, headers, params)

----------------------------------------------------------------------------
(* The methods, each called with any arguments.  this._http.<verb>(...)
   puts the request on the wire once, when the caller subscribes to the
   Observable the method returns; the model takes call and subscription as
   one step, and one call at a time (a call shares no state with another). *)

getPipelines ==
    \E key \in Keys :
        /\ pc # "pending"
        /\ pc' = "pending"
        /\ call' = [op |-> "getPipelines", key |-> key]
        /\ sent' = <<getPipelines_request(key)>>
        /\ response' = NoResponse
        /\ outcome' = NoOutcome

getPipeline ==
    \E key \in Keys, pipName \in PipNames :
        /\ pc # "pending"
        /\ pc' = "pending"
        /\ call' = [op |-> "getPipeline", key |-> key, pipName |-> pipName]
        /\ sent' = <<getPipeline_request(key, pipName)>>
        /\ response' = NoResponse
        /\ outcome' = NoOutcome

updatePipeline ==
    \E key \in Keys, oldName \in PipNames, pipeline \in Pipelines :
        /\ pc # "pending"
        /\ pc' = "pending"
        /\ call' = [op |-> "updatePipeline", key |-> key,
                     pipName |-> oldName, pipeline |-> pipeline]
        /\ sent' = <<updatePipeline_request(key, oldName, pipeline)>>
        /\ response' = NoResponse
        /\ outcome' = NoOutcome

importPipeline ==
    \E key \in Keys, pipName \in PipNames, pipelineCode \in Codes,
       force \in Forces :
        /\ pc # "pending"
        /\ pc' = "pending"
        /\ call' = [op |-> "importPipeline", key |-> key,
                     pipName |-> pipName, pipelineCode |-> pipelineCode,
                     force |-> force]
        /\ sent' = <<importPipeline_request(key, pipName, pipelineCode, force)>>
        /\ response' = NoResponse
        /\ outcome' = NoOutcome

rollbackPipeline ==
    \E key \in Keys, pipName \in PipNames, auditId \in Ids :
        /\ pc # "pending"
        /\ pc' = "pending"
        /\ call' = [op |-> "rollbackPipeline", key |-> key,
                     pipName |-> pipName, auditId |-> auditId]
        /\ sent' = <<rollbackPipeline_request(key, pipName, auditId)>>
        /\ response' = NoResponse
        /\ outcome' = NoOutcome

deletePipeline ==
    \E key \in Keys, pipName \in PipNames :
        /\ pc # "pending"
        /\ pc' = "pending"
        /\ call' = [op |-> "deletePipeline", key |-> key,
                     pipName |-> pipName]
        /\ sent' = <<deletePipeline_request(key, pipName)>>
        /\ response' = NoResponse
        /\ outcome' = NoOutcome

createPipeline ==
    \E key \in Keys, pipeline \in Pipelines :
        /\ pc # "pending"
        /\ pc' = "pending"
        /\ call' = [op |-> "createPipeline", key |-> key,
                     pipeline |-> pipeline]
        /\ sent' = <<createPipeline_request(key, pipeline)>>
        /\ response' = NoResponse
        /\ outcome' = NoOutcome

getApplications ==
    \E key \in Keys, pipName \in PipNames :
        /\ pc # "pending"
        /\ pc' = "pending"
        /\ call' = [op |-> "getApplications", key |-> key,
                     pipName |-> pipName]
        /\ sent' = <<getApplications_request(key, pipName)>>
        /\ response' = NoResponse
        /\ outcome' = NoOutcome

insertStage ==
    \E key \in Keys, pipName \in PipNames, stage \in Stages :
        /\ pc # "pending"
        /\ pc' = "pending"
        /\ call' = [op |-> "insertStage", key |-> key, pipName |-> pipName,
                     stage |-> stage]
        /\ sent' = <<insertStage_request(key, pipName, stage)>>
        /\ response' = NoResponse
        /\ outcome' = NoOutcome

updateStage ==
    \E key \in Keys, pipName \in PipNames, stage \in Stages :
        /\ pc # "pending"
        /\ pc' = "pending"
        /\ call' = [op |-> "updateStage", key |-> key, pipName |-> pipName,
                     stage |-> stage]
        /\ sent' = <<updateStage_request(key, pipName, stage)>>
        /\ response' = NoResponse
        /\ outcome' = NoOutcome

deleteStage ==
    \E key \in Keys, pipName \in PipNames, stage \in Stages :
        /\ pc # "pending"
        /\ pc' = "pending"
        /\ call' = [op |-> "deleteStage", key |-> key, pipName |-> pipName,
                     stage |-> stage]
        /\ sent' = <<deleteStage_request(key, pipName, stage)>>
        /\ response' = NoResponse
        /\ outcome' = NoOutcome

addJob ==
    \E key \in Keys, pipName \in PipNames, stageID \in Ids, job \in Jobs :
        /\ pc # "pending"
        /\ pc' = "pending"
        /\ call' = [op |-> "addJob", key |-> key, pipName |-> pipName,
                     stageID |-> stageID, job |-> job]
        /\ sent' = <<addJob_request(key, pipName, stageID, job)>>
        /\ response' = NoResponse
        /\ outcome' = NoOutcome

updateJob ==
    \E key \in Keys, pipName \in PipNames, stageID \in Ids, job \in Jobs :
        /\ pc # "pending"
        /\ pc' = "pending"
        /\ call' = [op |-> "updateJob", key |-> key, pipName |-> pipName,
                     stageID |-> stageID, job |-> job]
        /\ sent' = <<updateJob_request(key, pipName, stageID, job)>>
        /\ response' = NoResponse
        /\ outcome' = NoOutcome

removeJob ==
    \E key \in Keys, pipName \in PipNames, stageID \in Ids, job \in Jobs :
        /\ pc # "pending"
        /\ pc' = "pending"
        /\ call' = [op |-> "removeJob", key |-> key, pipName |-> pipName,
                     stageID |-> stageID, job |-> job]
        /\ sent' = <<removeJob_request(key, pipName, stageID, job)>>
        /\ response' = NoResponse
        /\ outcome' = NoOutcome

addParameter ==
    \E key \in Keys, pipName \in PipNames, param \in Parameters :
        /\ pc # "pending"
        /\ pc' = "pending"
        /\ call' = [op |-> "addParameter", key |-> key, pipName |-> pipName,
                     param |-> param]
        /\ sent' = <<addParameter_request(key, pipName, param)>>
        /\ response' = NoResponse
        /\ outcome' = NoOutcome

updateParameter ==
    \E key \in Keys, pipName \in PipNames, param \in Parameters :
        /\ pc # "pending"
        /\ pc' = "pending"
        /\ call' = [op |-> "updateParameter", key |-> key,
                     pipName |-> pipName, param |-> param]
        /\ sent' = <<updateParameter_request(key, pipName, param)>>
        /\ response' = NoResponse
        /\ outcome' = NoOutcome

removeParameter ==
    \E key \in Keys, pipName \in PipNames, param \in Parameters :
        /\ pc # "pending"
        /\ pc' = "pending"
        /\ call' = [op |-> "removeParameter", key |-> key,
                     pipName |-> pipName, param |-> param]
        /\ sent' = <<removeParameter_request(key, pipName, param)>>
        /\ response' = NoResponse
        /\ outcome' = NoOutcome

moveStage ==
    \E key \in Keys, pipName \in PipNames, stage \in Stages :
        /\ pc # "pending"
        /\ pc' = "pending"
        /\ call' = [op |-> "moveStage", key |-> key, pipName |-> pipName,
                     stage |-> stage]
        /\ sent' = <<moveStage_request(key, pipName, stage)>>
        /\ response' = NoResponse
        /\ outcome' = NoOutcome

getPipelineExport ==
    \E key \in Keys, pipName \in PipNames :
        /\ pc # "pending"
        /\ pc' = "pending"
        /\ call' = [op |-> "getPipelineExport", key |-> key,
                     pipName |-> pipName]
        /\ sent' = <<getPipelineExport_request(key, pipName)>>
        /\ response' = NoResponse
        /\ outcome' = NoOutcome

previewPipelineImport ==
    \E key \in Keys, pipImportCode \in Codes :
        /\ pc # "pending"
        /\ pc' = "pending"
        /\ call' = [op |-> "previewPipelineImport", key |-> key,
                     pipelineCode |-> pipImportCode]
        /\ sent' = <<previewPipelineImport_request(key, pipImportCode)>>
        /\ response' = NoResponse
        /\ outcome' = NoOutcome

----------------------------------------------------------------------------
(* The backend's answer and what the caller's subscription receives *)

ResponseBodies == {Null, Str(""), Str("name: P"), Obj([name |-> Str("P")])}
FailureStatuses == {400, 404, 500}
FailureBodies == {Null, Str("not found")}

Success(body) == [kind |-> "success", body |-> body]
Failure(status, body) == [kind |-> "failure", status |-> status, body |-> body]

(* A transport failure reaches the subscriber as an error of status 0. *)
TransportError == Failure(0, Null)

next(value) == [kind |-> "next", value |-> value]
error(status, body) == [kind |-> "error", status |-> status, body |-> body]

(* The HttpClient's notification for an answer: the body on success, the
   error response otherwise. *)
Notification(r) ==
    IF r.kind = "success" THEN next(r.body) ELSE error(r.status, r.body)

pipe_catchAll(op, n) ==
    IF n.kind = "next"
    THEN (IF op = "deletePipeline" THEN next(Bool(TRUE)) ELSE n)
    ELSE error(0, Null)

pipe_noMap(op, n) == n

(* The operators a method pipes the HttpClient's Observable through:
   map(() => true) in deletePipeline, none elsewhere.  map acts on next
   notifications only. *)
pipe(op, n) ==
    IF op = "deletePipeline" /\ n.kind = "next" THEN next(Bool(TRUE)) ELSE n

RespondSuccess ==
    \E body \in ResponseBodies :
        /\ pc = "pending"
        /\ pc' = "done"
        /\ response' = Success(body)
        /\ outcome' = pipe(call.op, Notification(Success(body)))
        /\ UNCHANGED <<call, sent>>

RespondFailure ==
    \E status \in FailureStatuses, body \in FailureBodies :
        /\ pc = "pending"
        /\ pc' = "done"
        /\ response' = Failure(status, body)
        /\ outcome' = pipe(call.op, Notification(Failure(status, body)))
        /\ UNCHANGED <<call, sent>>

TransportFailure ==
    /\ pc = "pending"
    /\ pc' = "done"
    /\ response' = TransportError
    /\ outcome' = pipe(call.op, Notification(TransportError))
    /\ UNCHANGED <<call, sent>>

Next ==
    \/ getPipelines
    \/ getPipeline
    \/ updatePipeline
    \/ importPipeline
    \/ rollbackPipeline
    \/ deletePipeline
    \/ createPipeline
    \/ getApplications
    \/ insertStage
    \/ updateStage
    \/ deleteStage
    \/ addJob
    \/ updateJob
    \/ removeJob
    \/ addParameter
    \/ updateParameter
    \/ removeParameter
    \/ moveStage
    \/ getPipelineExport
    \/ previewPipelineImport
    \/ RespondSuccess
    \/ RespondFailure
    \/ TransportFailure

Spec == Init /\ [][Next]_vars

----------------------------------------------------------------------------
(* Properties *)

(* The request of the call in progress or just answered. *)
Issued == pc # "idle"
TheRequest == sent[1]

ProjectAddress(key) == "/project/" \o JsToString(key)
PipelineAddress(key, pipName) ==
    ProjectAddress(key) \o "/pipeline/" \o JsToString(pipName)
StageAddress(key, pipName, stageId) ==
    PipelineAddress(key, pipName) \o "/stage/" \o JsToString(stageId)

YamlHeaders == <<(<<"Content-Type", "application/x-yaml">>)>>
FormatYaml == <<"format", "yaml">>

(* C1: importPipeline chooses verb and address together: POST to
   /project/<key>/import/pipeline when the name is empty or absent, PUT to
   /project/<key>/import/pipeline/<name> when it is non-empty; never POST
   with the named address nor PUT with the collection address. *)
C1_ImportVerbAndAddress ==
    (Issued /\ call.op = "importPipeline") =>
        LET collection == ProjectAddress(call.key) \o "/import/pipeline"
            unnamed == call.pipName \in {Undefined, Null, Str("")}
        IN  /\ Len(sent) = 1
            /\ unnamed =>
                 /\ TheRequest.method = "POST"
                 /\ TheRequest.url = collection
            /\ ~unnamed =>
                 /\ TheRequest.method = "PUT"
                 /\ TheRequest.url = collection \o "/" \o call.pipName.v
            /\ (call.key = Str("PRJ") /\ call.pipName = Str("")) =>
                 TheRequest.url = "/project/PRJ/import/pipeline"
            /\ (call.key = Str("PRJ") /\ call.pipName = Str("P")) =>
                 TheRequest.url = "/project/PRJ/import/pipeline/P"

C1_Witness ==
    /\ pc = "pending"
    /\ call.op = "importPipeline"
    /\ call.pipName = Str("P")
    /\ TheRequest.method = "PUT"
    /\ TheRequest.url = "/project/PRJ/import/pipeline/P"

(* C2: updateParameter issues PUT to
   /project/<key>/pipeline/<pipName>/parameter/<k>, k being previousName
   when a rename is requested (previousName is a non-empty name) and the
   current name otherwise; the body's name is always the current name. *)
C2_UpdateParameterAddress ==
    (Issued /\ call.op = "updateParameter") =>
        LET prev == call.param.f.previousName
            renamed == prev.t = "string" /\ prev.v # ""
            k == IF renamed THEN prev.v ELSE call.param.f.name.v
        IN  /\ TheRequest.method = "PUT"
            /\ TheRequest.url =
                 PipelineAddress(call.key, call.pipName) \o "/parameter/" \o k
            /\ TheRequest.body.f.name = call.param.f.name
            /\ (call.key = Str("PRJ") /\ call.pipName = Str("P")
                  /\ prev = Str("old") /\ call.param.f.name = Str("new")) =>
                 /\ TheRequest.url = "/project/PRJ/pipeline/P/parameter/old"
                 /\ TheRequest.body.f.name = Str("new")
            /\ (call.key = Str("PRJ") /\ call.pipName = Str("P")
                  /\ prev = Undefined /\ call.param.f.name = Str("x")) =>
                 TheRequest.url = "/project/PRJ/pipeline/P/parameter/x"

C2_Witness ==
    /\ pc = "pending"
    /\ call.op = "updateParameter"
    /\ call.param.f.previousName = Str("old")
    /\ call.param.f.name = Str("new")
    /\ TheRequest.url = "/project/PRJ/pipeline/P/parameter/old"
    /\ TheRequest.body.f.name = Str("new")

(* An address component the caller got wrong: an empty project key, an
   empty or absent pipeline name (importPipeline apart, where it selects
   the creation path), an empty parameter name, an undefined or negative
   stage id, job action id or audit id. *)
BadName(v) == v.t # "string" \/ v.v = ""
BadId(v) == v.t # "number" \/ v.v < 0
Malformed(c) ==
    \/ BadName(c.key)
    \/ c.op \in {"getPipeline", "updatePipeline", "rollbackPipeline",
                 "deletePipeline", "getApplications", "insertStage",
                 "updateStage", "deleteStage", "addJob", "updateJob",
                 "removeJob", "addParameter", "updateParameter",
                 "removeParameter", "moveStage", "getPipelineExport"}
         /\ BadName(c.pipName)
    \/ c.op \in {"updateStage", "deleteStage"} /\ BadId(c.stage.f.id)
    \/ c.op \in {"addJob", "updateJob", "removeJob"} /\ BadId(c.stageID)
    \/ c.op \in {"updateJob", "removeJob"}
         /\ BadId(c.job.f.pipeline_action_id)
    \/ c.op \in {"addParameter", "removeParameter"} /\ BadName(c.param.f.name)
    \/ c.op = "updateParameter"
         /\ BadName(JsOr(c.param.f.previousName, c.param.f.name))
    \/ c.op = "rollbackPipeline" /\ BadId(c.auditId)

(* C3: a call with a malformed address component is rejected with an
   invalid-argument failure before any request is built: nothing is sent
   for it. *)
C3_MalformedRejected ==
    (Issued /\ Malformed(call)) =>
        /\ sent = <<>>
        /\ outcome.kind = "invalid-argument"

(* C4: one call sends exactly one request and delivers exactly one
   outcome: the success value on a success response, and on a server or
   transport failure that same failure, its status and body unchanged;
   no second request is issued for the call. *)
C4_OneRequestOneOutcome ==
    /\ pc = "idle" => sent = <<>> /\ outcome = NoOutcome
    /\ pc = "pending" => Len(sent) = 1 /\ outcome = NoOutcome
    /\ pc = "done" =>
         /\ Len(sent) = 1
         /\ response.kind = "success" =>
              /\ outcome.kind = "next"
              /\ outcome.value =
                   (IF call.op = "deletePipeline" THEN Bool(TRUE)
                    ELSE response.body)
         /\ response.kind = "failure" =>
              /\ outcome.kind = "error"
              /\ outcome.status = response.status
              /\ outcome.body = response.body

C4_Witness ==
    /\ pc = "done"
    /\ Len(sent) = 1
    /\ response = Failure(500, Str("not found"))
    /\ outcome = error(500, Str("not found"))

(* C5: deletePipeline resolves to true for every success body and never
   to true on a failure; deleteStage, removeJob and removeParameter return
   the backend's body unchanged. *)
C5_DeleteNormalization ==
    pc = "done" =>
        /\ (call.op = "deletePipeline" /\ response.kind = "success") =>
             outcome = next(Bool(TRUE))
        /\ (call.op = "deletePipeline" /\ response.kind = "failure") =>
             outcome.kind # "next"
        /\ (call.op \in {"deleteStage", "removeJob", "removeParameter"}
              /\ response.kind = "success") =>
             outcome = next(response.body)

C5_Witness ==
    /\ pc = "done"
    /\ call.op = "deletePipeline"
    /\ response = Success(Obj([name |-> Str("P")]))
    /\ outcome = next(Bool(TRUE))

(* C6: a request carries Content-Type: application/x-yaml exactly when
   importPipeline (POST or PUT) or previewPipelineImport built it, and its
   body is then the caller's source text; no other method sets a header. *)
C6_YamlHeader ==
    Issued =>
        IF call.op \in {"importPipeline", "previewPipelineImport"}
        THEN /\ TheRequest.headers = YamlHeaders
             /\ TheRequest.body = call.pipelineCode
        ELSE TheRequest.headers = <<>>

C6_Witness ==
    /\ pc = "pending"
    /\ call.op = "previewPipelineImport"
    /\ call.pipelineCode = Str("name: P")
    /\ TheRequest.headers = YamlHeaders
    /\ TheRequest.body = Str("name: P")

(* C7: the query parameters are those of the wire contract: the three
   with* flags on getPipeline alone, format=yaml on importPipeline,
   previewPipelineImport and getPipelineExport alone, withPermissions=true
   on getPipelineExport alone, none on any other method. *)
C7_QueryParameters ==
    Issued =>
        TheRequest.params =
            CASE call.op = "getPipeline" ->
                   <<(<<"withApplications", "true">>),
                     (<<"withWorkflows", "true">>),
                     (<<"withEnvironments", "true">>)>>
              [] call.op \in {"importPipeline", "previewPipelineImport"} ->
                   <<FormatYaml>>
              [] call.op = "getPipelineExport" ->
                   <<FormatYaml, (<<"withPermissions", "true">>)>>
              [] OTHER -> <<>>

C7_Witness ==
    /\ pc = "pending"
    /\ call.op = "getPipeline"
    /\ call.pipName = Undefined
    /\ Len(TheRequest.params) = 3

(* C8: rollbackPipeline issues POST to
   /project/<key>/pipeline/<pipName>/rollback/<auditId> with an empty
   body: the audit id is in the address and in no part of the body. *)
C8_RollbackAddress ==
    (Issued /\ call.op = "rollbackPipeline") =>
        /\ TheRequest.method = "POST"
        /\ TheRequest.url =
             PipelineAddress(call.key, call.pipName) \o "/rollback/"
                 \o JsToString(call.auditId)
        /\ TheRequest.body = EmptyObject
        /\ DOMAIN TheRequest.body.f = {}
        /\ (call.key = Str("PRJ") /\ call.pipName = Str("P")
              /\ call.auditId = Num(3)) =>
             TheRequest.url = "/project/PRJ/pipeline/P/rollback/3"

C8_Witness ==
    /\ pc = "pending"
    /\ call.op = "rollbackPipeline"
    /\ call.auditId = Num(3)
    /\ TheRequest.url = "/project/PRJ/pipeline/P/rollback/3"
    /\ TheRequest.body = EmptyObject

(* C9: a nested entity's address is its parent's address followed by its
   own identifier: stage addresses extend the pipeline address with
   /stage/<stageId>, job addresses extend the stage address with
   /job/<actionId>, parameter addresses extend the pipeline address with
   /parameter/<name>; updating job 3 of a stage of pipeline P in project PRJ
   addresses /project/PRJ/pipeline/P/stage/<stageId>/job/3. *)
C9_NestedAddresses ==
    Issued =>
        LET pip == PipelineAddress(call.key, call.pipName)
        IN  /\ call.op \in {"updateStage", "deleteStage"} =>
                 TheRequest.url = pip \o "/stage/" \o JsToString(call.stage.f.id)
            /\ call.op = "addJob" =>
                 TheRequest.url =
                     StageAddress(call.key, call.pipName, call.stageID)
                         \o "/job"
            /\ call.op \in {"updateJob", "removeJob"} =>
                 TheRequest.url =
                     StageAddress(call.key, call.pipName, call.stageID)
                         \o "/job/"
                         \o JsToString(call.job.f.pipeline_action_id)
            /\ call.op \in {"addParameter", "removeParameter"} =>
                 TheRequest.url = pip \o "/parameter/" \o call.param.f.name.v
            /\ call.op = "updateParameter" =>
                 TheRequest.url =
                     pip \o "/parameter/"
                         \o JsOr(call.param.f.previousName,
                                 call.param.f.name).v
            /\ (call.op = "updateJob" /\ call.key = Str("PRJ")
                  /\ call.pipName = Str("P") /\ call.stageID = Num(1)
                  /\ call.job.f.pipeline_action_id = Num(3)) =>
                 TheRequest.url = "/project/PRJ/pipeline/P/stage/1/job/3"
            /\ (call.op = "addParameter" /\ call.key = Str("PRJ")
                  /\ call.pipName = Str("P")
                  /\ call.param.f.name = Str("FOO")) =>
                 /\ TheRequest.url = "/project/PRJ/pipeline/P/parameter/FOO"
                 /\ TheRequest.method = "POST"

C9_Witness ==
    /\ pc = "pending"
    /\ call.op = "updateJob"
    /\ call.key = Str("PRJ")
    /\ call.pipName = Str("P")
    /\ call.job.f.pipeline_action_id = Num(3)
    /\ TheRequest.url = "/project/PRJ/pipeline/P/stage/1/job/3"

(* C10: the request importPipeline builds does not depend on force: with
   force true, false or absent the method, address, query parameters,
   headers and body are the same, and force is never put on the wire. *)
C10_ForceIgnored ==
    (Issued /\ call.op = "importPipeline") =>
        /\ \A f \in Forces :
             TheRequest =
                 importPipeline_request(call.key, call.pipName,
                                        call.pipelineCode, f)
        /\ TheRequest.params = <<FormatYaml>>
        /\ TheRequest.headers = YamlHeaders
        /\ TheRequest.body = call.pipelineCode

C10_Witness ==
    /\ pc = "pending"
    /\ call.op = "importPipeline"
    /\ call.force = Bool(TRUE)
    /\ TheRequest.params = <<FormatYaml>>

====
